---- MODULE Spec2Model ----
(***************************************************************************)
(* Model of im-calvin/map-router: api/algorithm.py (Person, RoutePlanner,  *)
(* VRPSolver, GoogleDistanceMatrixClient) and the /api/distance/ endpoint  *)
(* of api/index.py, which uses one module-level GoogleDistanceMatrixClient.*)
(*                                                                         *)
(* Spec     : one call of RoutePlanner.plan_routes on a persons list.      *)
(* SpecApi  : a sequence of POST /api/distance/ requests.                  *)
(***************************************************************************)
EXTENDS Integers, Sequences, FiniteSets, TLC

\* ------------------------------------------------------------- bounds
MaxPersons == 3
MaxCap == 2
MaxRequests == 2
MaxOrigins == 2

Addr == {"addrA", "addrB"}

VARIABLES
    \* RoutePlanner fields (algorithm.py:35-41)
    persons, api_key_ok, destinations, drivers, passengers,
    \* position inside plan_routes and its locals
    pc, i, client_made, google_distance_client, dist_matrix, fetched,
    vehicle_capacities, vrp_solver_made, solution,
    \* what the caller and the outside world observe of plan_routes
    outcome, error, printed, provider_calls, sent,
    \* api/index.py: the module-level client and the last request served
    google_client, n_requests, request, api_called, api_sent, response

plannerVars == <<persons, api_key_ok, destinations, drivers, passengers,
                 pc, i, client_made, google_distance_client, dist_matrix, fetched,
                 vehicle_capacities, vrp_solver_made, solution,
                 outcome, error, printed, provider_calls, sent>>
apiVars == <<google_client, n_requests, request, api_called, api_sent, response>>
vars == <<plannerVars, apiVars>>

\* ------------------------------------------------------------- helpers
SeqsUpTo(S, n) == UNION {[1..k -> S] : k \in 0..n}

\* ------------------------------------------------------------- Person
\* Person.__init__: a non-driving person with a truthy capacity is rejected
\* with ValueError, so no such Person object exists.  Capacity 0 stands for
\* every falsy capacity (0 or None).
PersonOk(p) == ~(p.capacity # 0 /\ ~p.is_driving)

Person ==
    {p \in [address : Addr, capacity : 0..MaxCap,
            is_driving : BOOLEAN, is_destination : BOOLEAN] : PersonOk(p)}

\* ------------------------------------------------------------- RoutePlanner.__init__
IsDestination(p) == p.is_destination
IsDriver(p) == p.is_driving /\ ~p.is_destination
IsPassenger(p) == ~p.is_driving /\ ~p.is_destination
AddressesOf(ps) == [k \in 1..Len(ps) |-> ps[k].address]
CapacitiesOf(ps) == [k \in 1..Len(ps) |-> ps[k].capacity]

Destinations(ps) == AddressesOf(SelectSeq(ps, IsDestination))
Drivers(ps) == SelectSeq(ps, IsDriver)
Passengers(ps) == SelectSeq(ps, IsPassenger)

\* ------------------------------------------------------------- GoogleDistanceMatrixClient
NewClient == [origins |-> <<>>, destination |-> <<>>]

add_origin(c, origin) == [c EXCEPT !.origins = Append(@, origin)]

set_destination(c, destination) == [c EXCEPT !.destination = Append(@, destination)]

\* The provider's answer: the top-level status, and whether every element
\* carries a distance (an element with status NOT_FOUND has no "distance" key).
ProviderResponse == [status : {"OK", "REQUEST_DENIED"}, found : BOOLEAN]

\* Whether fetch_distance_matrix gets as far as calling the provider.
CallsProvider(c) == c.origins # <<>> /\ c.destination # <<>>

\* One result line per origin: "From {origin} to {self.destination}: ...",
\* the distance and duration being those of elements[0], the first destination.
ResultLine(c, k) ==
    [from |-> c.origins[k], to |-> c.destination,
     element |-> <<c.origins[k], c.destination[1]>>]

Raise(e) == [kind |-> "raise", error |-> e, value |-> <<>>]
Return(v) == [kind |-> "ok", error |-> "none", value |-> v]

fetch_distance_matrix(c, resp) ==
    IF ~CallsProvider(c) THEN Raise("ValueError: origins and destination must be set")
    ELSE IF resp.status # "OK" THEN Raise("Exception: error fetching distance matrix")
    ELSE IF ~resp.found THEN Raise("KeyError: distance")
    ELSE Return([k \in 1..Len(c.origins) |-> ResultLine(c, k)])

\* ------------------------------------------------------------- VRPSolver
\* def __init__(self, distance_matrix, vehicle_capacities): two positional
\* parameters after self; any other number of arguments is a TypeError.
VRPSolverInit(args) ==
    IF Len(args) # 2 THEN Raise("TypeError: __init__ takes 3 positional arguments")
    ELSE Return([distance_matrix |-> args[1], vehicle_capacities |-> args[2], depot |-> 0])

\* VRPSolver.solve reads self.data["num_vehicles"] (lines 120-124) before any
\* routing model exists; self.data has no such key.
SolveVRP(data) ==
    IF "num_vehicles" \notin DOMAIN data THEN Raise("KeyError: num_vehicles")
    ELSE Return("solved")

\* ------------------------------------------------------------- RoutePlanner.plan_routes
\* The two checks of lines 47-52 in the opposite order.
ValidateDriversFirst(dests, drvs) ==
    IF drvs = <<>> THEN "NoDriver"
    ELSE IF dests = <<>> THEN "NoDestination"
    ELSE "none"

\* Lines 47-52: the two checks, in this order.
Validate(dests, drvs) ==
    IF dests = <<>> THEN "NoDestination"
    ELSE IF drvs = <<>> THEN "NoDriver"
    ELSE "none"

Init ==
    /\ persons \in SeqsUpTo(Person, MaxPersons)
    /\ api_key_ok \in BOOLEAN
    /\ destinations = Destinations(persons)
    /\ drivers = Drivers(persons)
    /\ passengers = Passengers(persons)
    /\ pc = "validate"
    /\ i = 1
    /\ client_made = FALSE
    /\ google_distance_client = NewClient
    /\ dist_matrix = <<>>
    /\ fetched = FALSE
    /\ vehicle_capacities = <<>>
    /\ vrp_solver_made = FALSE
    /\ solution = "none"
    /\ outcome = "running"
    /\ error = "none"
    /\ printed = <<>>
    /\ provider_calls = 0
    /\ sent = NewClient
    /\ google_client = NewClient
    /\ n_requests = 0
    /\ request = [origins |-> <<>>, destination |-> "addrA"]
    /\ api_called = FALSE
    /\ api_sent = NewClient
    /\ response = Return(<<>>)

\* lines 47-52
ValidateStep ==
    /\ pc = "validate"
    /\ LET e == Validate(destinations, drivers) IN
         IF e # "none"
         THEN /\ outcome' = "raised"
              /\ error' = e
              /\ pc' = "done"
         ELSE /\ pc' = "client"
              /\ UNCHANGED <<outcome, error>>
    /\ UNCHANGED <<persons, api_key_ok, destinations, drivers, passengers, i,
                   client_made, google_distance_client, dist_matrix, fetched,
                   vehicle_capacities, vrp_solver_made, solution, printed,
                   provider_calls, sent, apiVars>>

\* line 55: GoogleDistanceMatrixClient(api_key) builds googlemaps.Client(key=...),
\* which rejects a missing or malformed key with ValueError; the call is outside
\* the try block.
MakeClient ==
    /\ pc = "client"
    /\ IF api_key_ok
       THEN /\ client_made' = TRUE
            /\ google_distance_client' = NewClient
            /\ pc' = "add_origin"
            /\ i' = 1
            /\ UNCHANGED <<outcome, error>>
       ELSE /\ outcome' = "raised"
            /\ error' = "InvalidApiKey"
            /\ pc' = "done"
            /\ UNCHANGED <<client_made, google_distance_client, i>>
    /\ UNCHANGED <<persons, api_key_ok, destinations, drivers, passengers,
                   dist_matrix, fetched, vehicle_capacities, vrp_solver_made,
                   solution, printed, provider_calls, sent, apiVars>>

\* lines 58-59, one iteration
AddOrigin ==
    /\ pc = "add_origin"
    /\ i <= Len(drivers)
    /\ google_distance_client' = add_origin(google_distance_client, drivers[i].address)
    /\ IF i = Len(drivers)
       THEN pc' = "set_destination" /\ i' = 1
       ELSE pc' = pc /\ i' = i + 1
    /\ UNCHANGED <<persons, api_key_ok, destinations, drivers, passengers,
                   client_made, dist_matrix, fetched, vehicle_capacities,
                   vrp_solver_made, solution, outcome, error, printed,
                   provider_calls, sent, apiVars>>

\* lines 60-61, one iteration
SetDestination ==
    /\ pc = "set_destination"
    /\ i <= Len(destinations)
    /\ google_distance_client' = set_destination(google_distance_client, destinations[i])
    /\ IF i = Len(destinations)
       THEN pc' = "fetch" /\ i' = 1
       ELSE pc' = pc /\ i' = i + 1
    /\ UNCHANGED <<persons, api_key_ok, destinations, drivers, passengers,
                   client_made, dist_matrix, fetched, vehicle_capacities,
                   vrp_solver_made, solution, outcome, error, printed,
                   provider_calls, sent, apiVars>>

\* lines 64-65 with the handler of lines 79-80
FetchMatrix ==
    /\ pc = "fetch"
    /\ \E resp \in ProviderResponse :
         LET r == fetch_distance_matrix(google_distance_client, resp) IN
         /\ IF CallsProvider(google_distance_client)
            THEN provider_calls' = provider_calls + 1 /\ sent' = google_distance_client
            ELSE UNCHANGED <<provider_calls, sent>>
         /\ IF r.kind = "ok"
            THEN /\ dist_matrix' = r.value
                 /\ fetched' = TRUE
                 /\ pc' = "solver"
                 /\ UNCHANGED <<printed, outcome>>
            ELSE /\ printed' = Append(printed, r.error)
                 /\ outcome' = "returned"
                 /\ pc' = "done"
                 /\ UNCHANGED <<dist_matrix, fetched>>
    /\ UNCHANGED <<persons, api_key_ok, destinations, drivers, passengers, i,
                   client_made, google_distance_client, vehicle_capacities,
                   vrp_solver_made, solution, error, apiVars>>

\* lines 72-78 with the handler of lines 79-80
RunSolver ==
    /\ pc = "solver"
    /\ vehicle_capacities' = CapacitiesOf(drivers)
    /\ LET made == VRPSolverInit(<<dist_matrix, Len(drivers), vehicle_capacities'>>) IN
         IF made.kind = "raise"
         THEN /\ printed' = Append(printed, made.error)
              /\ UNCHANGED <<vrp_solver_made, solution>>
         ELSE /\ vrp_solver_made' = TRUE
              /\ LET s == SolveVRP(made.value) IN
                   IF s.kind = "raise"
                   THEN printed' = Append(printed, s.error) /\ UNCHANGED solution
                   ELSE solution' = s.value /\ UNCHANGED printed
    /\ outcome' = "returned"
    /\ pc' = "done"
    /\ UNCHANGED <<persons, api_key_ok, destinations, drivers, passengers, i,
                   client_made, google_distance_client, dist_matrix, fetched,
                   error, provider_calls, sent, apiVars>>

Next == ValidateStep \/ MakeClient \/ AddOrigin \/ SetDestination \/ FetchMatrix \/ RunSolver

Spec == Init /\ [][Next]_vars

\* ------------------------------------------------------------- api/index.py
RECURSIVE AddOrigins(_, _)
AddOrigins(c, os) ==
    IF os = <<>> THEN c ELSE AddOrigins(add_origin(c, Head(os)), Tail(os))

\* lines 42-51: the handler is an async def without an await, so it runs to
\* completion on the event loop before the next request is served.
DistanceRequest(origins, destination, resp) ==
    /\ n_requests < MaxRequests
    /\ LET c == set_destination(AddOrigins(google_client, origins), destination)
           r == fetch_distance_matrix(c, resp) IN
         /\ google_client' = c
         /\ api_called' = CallsProvider(c)
         /\ api_sent' = IF CallsProvider(c) THEN c ELSE NewClient
         /\ response' = r
    /\ request' = [origins |-> origins, destination |-> destination]
    /\ n_requests' = n_requests + 1
    /\ UNCHANGED plannerVars

InitApi ==
    /\ Init
    /\ persons = <<>>
    /\ api_key_ok = TRUE

NextApi ==
    \E origins \in SeqsUpTo(Addr, MaxOrigins), destination \in Addr, resp \in ProviderResponse :
        DistanceRequest(origins, destination, resp)

SpecApi == InitApi /\ [][NextApi]_vars

\* ------------------------------------------------------------- properties
RECURSIVE SumSeq(_)
SumSeq(s) == IF s = <<>> THEN 0 ELSE Head(s) + SumSeq(Tail(s))

\* The sum of the drivers' capacities.
TotalCapacity == SumSeq(CapacitiesOf(drivers))

\* C3: when the drivers' capacities sum to less than the number of passengers,
\* plan_routes ends with an InfeasibleCapacity error raised to the caller, no
\* solver having been created and no solution produced (stated for inputs that
\* pass the destination and driver checks, with a valid key and an answered
\* distance request, so that nothing else can be the reason for the ending).
C3_InfeasibleCapacityRaised ==
    (/\ pc = "done"
     /\ Validate(destinations, drivers) = "none"
     /\ api_key_ok
     /\ fetched
     /\ TotalCapacity < Len(passengers))
    => (/\ outcome = "raised"
        /\ error = "InfeasibleCapacity"
        /\ ~vrp_solver_made
        /\ solution = "none")

\* C4: every finished call of plan_routes either produced a solution or raised
\* an error to its caller; no failure ends as a normal return without a solution.
C4_NoSilentFailure ==
    pc = "done" => (outcome = "raised" \/ solution # "none")

\* C5: a persons list without a destination fails with the missing-destination
\* error, one with a destination but without a driver fails with the
\* missing-driver error, the missing-destination error wins when both are
\* absent, and in both cases no client exists, no origin was added, the
\* provider was not called and no solver was created.
C5_ValidationFirst ==
    /\ (pc # "validate" /\ destinations = <<>>)
         => (pc = "done" /\ outcome = "raised" /\ error = "NoDestination")
    /\ (pc # "validate" /\ destinations # <<>> /\ drivers = <<>>)
         => (pc = "done" /\ outcome = "raised" /\ error = "NoDriver")
    /\ error \in {"NoDestination", "NoDriver"}
         => (/\ ~client_made
             /\ google_distance_client = NewClient
             /\ provider_calls = 0
             /\ ~fetched
             /\ ~vrp_solver_made
             /\ printed = <<>>)

\* C5 witness: a call on a list with passengers only (neither a destination nor
\* a driver) has ended with the missing-destination error.
C5_Witness ==
    /\ pc = "done"
    /\ destinations = <<>>
    /\ drivers = <<>>
    /\ passengers # <<>>
    /\ error = "NoDestination"

\* C6: a persons list with two or more destinations is rejected by plan_routes,
\* and the distance client holds at most one destination whenever the provider
\* is called.
C6_SingleDestination ==
    /\ (pc = "done" /\ Len(destinations) >= 2) => outcome = "raised"
    /\ provider_calls > 0 => Len(sent.destination) <= 1

\* C8: what one /api/distance/ request sends to the provider, and what it gets
\* back, is what a client holding only that request's addresses would send and
\* get back.
RequestClient == set_destination(AddOrigins(NewClient, request.origins), request.destination)

C8_RequestIsolation ==
    n_requests > 0 =>
        /\ api_called = CallsProvider(RequestClient)
        /\ api_called => api_sent = RequestClient
        /\ response.kind = "ok" =>
             response.value = [k \in 1..Len(request.origins) |-> ResultLine(RequestClient, k)]

\* C9: a solution exists only after the matrix was fetched and the solver was
\* built (no stage is skipped or revisited), the solver is run at most once, and
\* a call whose solve stage produced no solution ends with an error raised to
\* the caller.
C9_StagesInOrderAndSurfaced ==
    /\ solution # "none" => (fetched /\ vrp_solver_made /\ pc = "done")
    /\ Len(printed) <= 1
    /\ (pc = "done" /\ fetched /\ solution = "none") => outcome = "raised"

\* C10: with one driver whose capacity equals the number of passengers, one
\* destination and an answered distance request, plan_routes ends with a solution.
C10_ExactCapacitySolves ==
    (/\ pc = "done"
     /\ fetched
     /\ Len(destinations) = 1
     /\ Len(drivers) = 1
     /\ Len(passengers) >= 1
     /\ drivers[1].capacity = Len(passengers))
    => solution # "none"

====
